---- MODULE Spec2Model ----
(***************************************************************************)
(* Model of app/main.py, the TV guide recommender service: the ingestion   *)
(* handlers (upsert, bulk_ingest), the related query and the vector index  *)
(* they talk to.                                                           *)
(***************************************************************************)
EXTENDS Integers, Sequences, FiniteSets, TLC

(***************************************************************************)
(* Python values.  A str is a sequence of characters, so that joining and  *)
(* formatting are computed; an int and None are kept apart from a str.     *)
(***************************************************************************)
None == [t |-> "None"]
PyStr(s) == [t |-> "str", v |-> s]
PyInt(n) == [t |-> "int", n |-> n]
PyBool(b) == [t |-> "bool", b |-> b]

IsStr(x) == x.t = "str"

\* Python truthiness of an Optional[str] / Optional[int]
Truthy(x) ==
    CASE x.t = "None" -> FALSE
      [] x.t = "str"  -> x.v # <<>>
      [] x.t = "int"  -> x.n # 0

Digit(d) == <<"0", "1", "2", "3", "4", "5", "6", "7", "8", "9">>[d + 1]

RECURSIVE NatDigits(_)
NatDigits(n) == IF n < 10 THEN <<Digit(n)>> ELSE NatDigits(n \div 10) \o <<Digit(n % 10)>>

\* str(x)
str(x) ==
    CASE x.t = "str"  -> x
      [] x.t = "int"  -> PyStr(IF x.n < 0 THEN <<"-">> \o NatDigits(-x.n) ELSE NatDigits(x.n))
      [] x.t = "None" -> PyStr(<<"N", "o", "n", "e">>)

(***************************************************************************)
(* build_signature                                                         *)
(***************************************************************************)
RECURSIVE Join(_, _)
Join(sep, parts) ==
    IF parts = <<>> THEN <<>>
    ELSE IF Len(parts) = 1 THEN parts[1]
    ELSE parts[1] \o sep \o Join(sep, Tail(parts))

build_signature(title, description, genres, cast) ==
    LET parts0 == <<IF Truthy(title) THEN title.v ELSE <<>>>>
        parts  == IF Truthy(description) THEN Append(parts0, description.v) ELSE parts0
    IN  PyStr(Join(<<" ", "\n">>, parts))

(***************************************************************************)
(* The embedding provider: model.encode(text).tolist().  The model is an   *)
(* external capability; it is a deterministic function of the text that    *)
(* returns a vector of the model's dimension.                              *)
(***************************************************************************)
Count(s, c) == Cardinality({i \in 1..Len(s) : s[i] = c})

encode(text) == <<1 + Count(text.v, "N") + 2 * Count(text.v, "\n"), 1 + Count(text.v, "S")>>

get_sentence_embedding_dimension == Len(encode(PyStr(<<>>)))

(***************************************************************************)
(* Input domains.  Ids are point ids / content ids / guids.                *)
(***************************************************************************)
IdA == PyStr(<<"A">>)
IdB == PyStr(<<"B">>)
IdC == PyStr(<<"C">>)
Ids == {IdA, IdB, IdC}

News   == PyStr(<<"N", "e", "w", "s">>)
Sports == PyStr(<<"S", "p", "o", "r", "t", "s">>)
Update == PyStr(<<"U", "p", "d", "a", "t", "e">>)
Empty  == PyStr(<<>>)
Ch1    == PyStr(<<"1">>)
Ch2    == PyStr(<<"2">>)
Noon   == PyStr(<<"2", "0", "2", "5", "-", "0", "1", "-", "0", "1", "T", "1", "2", ":", "0", "0", ":", "0", "0", "Z">>)

\* UpsertItem (lines 137-144)
UpsertItem(cid, title, description, channel, start_time) ==
    [content_id |-> cid, title |-> title, description |-> description,
     genres |-> None, cast |-> None, channel |-> channel, start_time |-> start_time]

\* BulkIngestItem (lines 178-183)
BulkIngestItem(guid, title, description, startTime, channelId) ==
    [guid |-> guid, title |-> title, description |-> description,
     startTime |-> startTime, channelId |-> channelId]

(***************************************************************************)
(* The vector index (Qdrant) behind QdrantClient: one collection of        *)
(* points, written through a write-ahead queue.  An upsert sent with       *)
(* wait=False is acknowledged once queued; one sent with wait=True (the    *)
(* client's default) returns after the queue, itself included, is applied. *)
(***************************************************************************)
Absent == [t |-> "absent"]
NoCollection == [t |-> "none"]
PyList(v) == [t |-> "list", v |-> v]

\* a stored point / a point of an upsert request
PointStruct(id, vector, payload) == [t |-> "point", id |-> id, vector |-> vector, payload |-> payload]

VectorParams(size, distance) == [t |-> "collection", size |-> size, distance |-> distance]

RECURSIVE DotFrom(_, _, _)
DotFrom(u, v, i) == IF i > Len(u) THEN 0 ELSE u[i] * v[i] + DotFrom(u, v, i + 1)
Dot(u, v) == DotFrom(u, v, 1)

\* the similarity of two vectors: the real number num / sqrt(den2)
Score(distance, u, v) ==
    IF distance = "Cosine"
    THEN [num |-> Dot(u, v), den2 |-> Dot(u, u) * Dot(v, v)]
    ELSE [num |-> Dot(u, v), den2 |-> 1]

\* a < b as real numbers
ScoreLess(a, b) ==
    CASE a.num < 0 /\ b.num >= 0  -> TRUE
      [] a.num >= 0 /\ b.num < 0  -> FALSE
      [] a.num >= 0 /\ b.num >= 0 -> a.num * a.num * b.den2 < b.num * b.num * a.den2
      [] OTHER                    -> a.num * a.num * b.den2 > b.num * b.num * a.den2

\* payload.get(key)
Get(payload, key) == IF key \in DOMAIN payload THEN payload[key] ELSE None

\* FieldCondition(key, match=MatchValue(value)) against a stored payload:
\* the stored value equals the wanted one, type included
FilterMatches(q_filter, payload) ==
    \/ q_filter = None
    \/ /\ q_filter.key \in DOMAIN payload
       /\ payload[q_filter.key] = q_filter.value

\* client.retrieve(ids=[id], with_vectors=True, with_payload=True)
retrieve(ix, id) == IF ix[id] = Absent THEN <<>> ELSE <<ix[id]>>

\* the points a search over the collection can return
Searchable(ix, q_filter) ==
    {id \in Ids : /\ ix[id] # Absent
                  /\ ix[id].vector # None
                  /\ FilterMatches(q_filter, ix[id].payload)}

Min(a, b) == IF a < b THEN a ELSE b
Max(a, b) == IF a > b THEN a ELSE b

ScoredPoint(distance, query_vector, p) ==
    [id |-> p.id, score |-> Score(distance, query_vector.v, p.vector.v), payload |-> p.payload]

\* client.search(query_vector, limit, query_filter, with_payload=True): every
\* list the index may return: the `limit` best matches in descending order
\* of score, points of equal score in either order
search(collection, ix, query_vector, limit, q_filter) ==
    LET cand == Searchable(ix, q_filter)
        sc(id) == Score(collection.distance, query_vector.v, ix[id].vector.v)
        n == Min(limit, Cardinality(cand))
        orders == {f \in [1..n -> cand] :
                     /\ \A i, j \in 1..n : i < j => f[i] # f[j] /\ ~ScoreLess(sc(f[i]), sc(f[j]))
                     /\ \A id \in cand : (\A i \in 1..n : f[i] # id)
                                           => \A i \in 1..n : ~ScoreLess(sc(f[i]), sc(id))}
    IN  {[i \in 1..n |-> ScoredPoint(collection.distance, query_vector, ix[f[i]])] : f \in orders}

\* by id, the last point of that id in `points`, or else the old one
Latest(old, points) ==
    [id \in Ids |->
        LET written == SelectSeq(points, LAMBDA p : p.id = id)
        IN  IF written = <<>> THEN old[id] ELSE written[Len(written)]]

\* an index that inserts and never overwrites
ApplyPointsInsertOnly(ix, points) ==
    [id \in Ids |-> IF ix[id] # Absent THEN ix[id] ELSE Latest(ix, points)[id]]

\* one upsert operation applied to the collection: insert or overwrite by id
ApplyPoints(ix, points) == Latest(ix, points)

RECURSIVE ApplyAll(_, _)
ApplyAll(ix, queue) ==
    IF queue = <<>> THEN ix ELSE ApplyAll(ApplyPoints(ix, Head(queue)), Tail(queue))

\* the index rejects a point whose vector is not of the collection's size
Accepts(collection, points) ==
    \A j \in 1..Len(points) : Len(points[j].vector.v) = collection.size

(***************************************************************************)
(* Bounds and inputs.                                                      *)
(***************************************************************************)
\* writes acknowledged by the index and not yet applied
MaxPending == 1
\* related is called with k in -1 .. MaxK
MaxK == 2

BATCH_SIZE == 500

\* request bodies of /upsert
UpsertItems ==
    { UpsertItem(IdA, News, Update, Ch1, Noon),
      UpsertItem(IdC, News, None, None, None) }

\* request bodies of /bulk_ingest: the first n items of a feed
BulkFeedItem(i) ==
    CASE i % 3 = 1 -> BulkIngestItem(IdC, Sports, Update, PyInt(60), PyInt(2))
      [] i % 3 = 2 -> BulkIngestItem(IdB, News, None, PyInt(0), PyInt(1))
      [] OTHER     -> BulkIngestItem(IdA, News, Empty, None, None)

Items(n) == [i \in 1..n |-> BulkFeedItem(i)]

SmallBulks == {3}
LargeBulks == {0, 1, BATCH_SIZE - 1, BATCH_SIZE, BATCH_SIZE + 1, 2 * BATCH_SIZE, 2 * BATCH_SIZE + 1}

\* query parameters of /related
Ks == -1..MaxK
SameChannel == {None, PyBool(TRUE), PyBool(FALSE)}

(***************************************************************************)
(* The state.                                                              *)
(***************************************************************************)
VARIABLES
    SIMILARITY,     \* the configured metric (line 20)
    started,        \* _startup has run
    collection,     \* the collection's VectorParams, or NoCollection
    index,          \* the collection's points, by id (what a read sees)
    wal,            \* upsert operations acknowledged and not yet applied
    acked,          \* by id, the point of the last completed client.upsert
    ups,            \* the /upsert request in flight
    blk,            \* the /bulk_ingest request in flight
    rel             \* the /related request in flight

vars == <<SIMILARITY, started, collection, index, wal, acked, ups, blk, rel>>

Idle == [pc |-> "idle"]

\* A collection left by an earlier deployment: a point written with an
\* integer channel, and one with a payload and no vector.
LegacyIndex ==
    [id \in Ids |->
        CASE id = IdC -> PointStruct(IdC, PyList(<<1, 2>>), [title |-> Sports, channel |-> PyInt(1)])
          [] id = IdB -> PointStruct(IdB, None, [title |-> News, channel |-> Ch1])
          [] OTHER    -> Absent]

EmptyIndex == [id \in Ids |-> Absent]

Deployments ==
    { [similarity |-> "cosine", collection |-> NoCollection, index |-> EmptyIndex],
      [similarity |-> "dot", collection |-> VectorParams(2, "Dot"), index |-> LegacyIndex],
      [similarity |-> "cosine", collection |-> VectorParams(3, "Dot"), index |-> EmptyIndex] }

Init ==
    /\ \E d \in Deployments :
          /\ SIMILARITY = d.similarity
          /\ collection = d.collection
          /\ index = d.index
          /\ acked = d.index
    /\ started = FALSE
    /\ wal = <<>>
    /\ ups = Idle
    /\ blk = Idle
    /\ rel = Idle

(***************************************************************************)
(* Startup (lines 48-65)                                                   *)
(***************************************************************************)
ensure_collection ==
    LET dim == get_sentence_embedding_dimension
        distance == IF SIMILARITY = "cosine" THEN "Cosine" ELSE "Dot"
    IN  IF collection = NoCollection
        THEN collection' = VectorParams(dim, distance)
        ELSE UNCHANGED collection

Startup ==
    /\ ~started
    /\ ensure_collection
    /\ started' = TRUE
    /\ UNCHANGED <<SIMILARITY, index, wal, acked, ups, blk, rel>>

(***************************************************************************)
(* The index applies the oldest queued write.                              *)
(***************************************************************************)
WalApply ==
    /\ wal # <<>>
    /\ index' = ApplyPoints(index, Head(wal))
    /\ wal' = Tail(wal)
    /\ UNCHANGED <<SIMILARITY, started, collection, acked, ups, blk, rel>>

(***************************************************************************)
(* POST /upsert (lines 147-175)                                            *)
(***************************************************************************)
\* lines 149-155: the request is accepted, its text built and encoded (in a
\* worker thread)
UpsertCall ==
    /\ started /\ ups.pc = "idle"
    /\ \E item \in UpsertItems :
          LET text == build_signature(item.title, item.description, None, None)
          IN  ups' = [pc |-> "write", item |-> item, vec |-> PyList(encode(text))]
    /\ UNCHANGED <<SIMILARITY, started, collection, index, wal, acked, blk, rel>>

\* the points argument of lines 161-172
UpsertPoints(item, vec) ==
    << PointStruct(item.content_id, vec,
                   [title |-> item.title, description |-> item.description,
                    channel |-> item.channel, start_time |-> item.start_time]) >>

\* lines 158-175: client.upsert(points, wait=False); the write is queued
UpsertWrite ==
    /\ ups.pc = "write"
    /\ LET points == UpsertPoints(ups.item, ups.vec)
       IN  IF Accepts(collection, points)
           THEN /\ Len(wal) < MaxPending
                /\ wal' = Append(wal, points)
                /\ acked' = Latest(acked, points)
           ELSE UNCHANGED <<wal, acked>>
    /\ ups' = Idle
    /\ UNCHANGED <<SIMILARITY, started, collection, index, blk, rel>>

(***************************************************************************)
(* POST /bulk_ingest (lines 187-238)                                       *)
(***************************************************************************)
TwoDigits(n) == <<Digit(n \div 10), Digit(n % 10)>>

\* datetime.fromtimestamp(ts, tz=timezone.utc).isoformat(), for a ts within
\* the first day of the epoch
isoformat(ts) ==
    PyStr(<<"1", "9", "7", "0", "-", "0", "1", "-", "0", "1", "T">>
          \o TwoDigits(ts \div 3600) \o <<":">> \o TwoDigits((ts % 3600) \div 60)
          \o <<":">> \o TwoDigits(ts % 60) \o <<"+", "0", "0", ":", "0", "0">>)

\* the body of encode_batch's loop (lines 202-219)
EncodeItem(it) ==
    LET cid == it.guid
        text == build_signature(it.title, it.description, None, None)
        vec == PyList(encode(text))
        iso_time == IF Truthy(it.startTime) THEN isoformat(it.startTime.n) ELSE None
    IN  PointStruct(cid, vec,
                    [title |-> it.title, description |-> it.description,
                     channel |-> IF it.channelId # None THEN str(it.channelId) ELSE None,
                     start_time |-> iso_time])

\* lines 198-220
\* an encoding that leaves out the items without description
encode_batchSkip(batch_items) ==
    SelectSeq(<<>> \o [j \in 1..Len(batch_items) |-> EncodeItem(batch_items[j])],
              LAMBDA p : p.payload["description"] # None)

encode_batch(batch_items) == <<>> \o [j \in 1..Len(batch_items) |-> EncodeItem(batch_items[j])]

\* a slice one item too long
BatchWide(items, i) == SubSeq(items, i + 1, Min(i + BATCH_SIZE + 1, Len(items)))

\* items[index:index+BATCH_SIZE] (line 223)
Batch(items, i) == SubSeq(items, i + 1, Min(i + BATCH_SIZE, Len(items)))

\* the locals batch and points of the request in flight
batch == Batch(Items(blk.total), blk.index)
points == encode_batch(batch)

Event(op, b) == [op |-> op, index |-> b.index, n |-> Len(Batch(Items(b.total), b.index))]

\* lines 188-196
BulkCall(sizes) ==
    /\ started /\ blk.pc = "idle"
    /\ \E n \in sizes : blk' = [pc |-> "loop", total |-> n, index |-> 0, log |-> <<>>]
    /\ UNCHANGED <<SIMILARITY, started, collection, index, wal, acked, ups, rel>>

\* a loop test that stops one item early
BulkLoopShort ==
    /\ blk.pc = "loop"
    /\ IF blk.index < blk.total - 1
       THEN blk' = [blk EXCEPT !.pc = "encoding", !.log = Append(@, Event("encode_start", blk))]
       ELSE blk' = [pc |-> "done", total |-> blk.total, index |-> blk.index, log |-> blk.log,
                    resp |-> [status |-> 200, count |-> blk.total]]
    /\ UNCHANGED <<SIMILARITY, started, collection, index, wal, acked, ups, rel>>

\* line 222: the loop test; lines 223-227: the batch is cut and its encoding
\* handed to a worker thread; lines 237-238: the count is returned
BulkLoop ==
    /\ blk.pc = "loop"
    /\ IF blk.index < blk.total
       THEN blk' = [blk EXCEPT !.pc = "encoding", !.log = Append(@, Event("encode_start", blk))]
       ELSE blk' = [pc |-> "done", total |-> blk.total, index |-> blk.index, log |-> blk.log,
                    resp |-> [status |-> 200, count |-> blk.total]]
    /\ UNCHANGED <<SIMILARITY, started, collection, index, wal, acked, ups, rel>>

\* a handler that notes the failure of a batch and goes on to the next
BulkSwallow == [blk EXCEPT !.pc = "yield", !.index = @ + Len(batch)]

\* the failure of an awaited call propagates out of the handler
BulkRaise == [pc |-> "failed", total |-> blk.total, index |-> blk.index, log |-> blk.log,
              resp |-> [status |-> 500]]

\* line 231 without its await: the upsert is started and the loop goes on
BulkEncodeNoAwait ==
    /\ blk.pc = "encoding"
    /\ \/ blk' = [blk EXCEPT !.pc = "yield", !.index = @ + Len(batch),
                             !.log = blk.log \o <<Event("encode_end", blk), Event("upsert_start", blk)>>]
       \/ blk' = BulkRaise
    /\ UNCHANGED <<SIMILARITY, started, collection, index, wal, acked, ups, rel>>

\* line 227: encode_batch runs in the thread and returns or raises; on
\* return, line 231 hands the upsert to a worker thread
BulkEncode ==
    /\ blk.pc = "encoding"
    /\ \/ blk' = [blk EXCEPT !.pc = "upserting",
                             !.log = blk.log \o <<Event("encode_end", blk), Event("upsert_start", blk)>>]
       \/ blk' = BulkRaise
    /\ UNCHANGED <<SIMILARITY, started, collection, index, wal, acked, ups, rel>>

\* lines 231-232: client.upsert(points) (wait defaults to True) returns once
\* the write is applied, or raises; then index += len(batch)
BulkUpsert ==
    /\ blk.pc = "upserting"
    /\ \E ok \in BOOLEAN :
          LET pts == points
          IN  IF ok /\ Accepts(collection, pts)
              THEN /\ index' = ApplyPoints(ApplyAll(index, wal), pts)
                   /\ wal' = <<>>
                   /\ acked' = Latest(acked, pts)
                   /\ blk' = [blk EXCEPT !.pc = "yield", !.index = @ + Len(batch),
                                         !.log = Append(@, Event("upsert_end", blk))]
              ELSE /\ blk' = BulkRaise
                   /\ UNCHANGED <<index, wal, acked>>
    /\ UNCHANGED <<SIMILARITY, started, collection, ups, rel>>

\* line 235: await asyncio.sleep(0)
BulkYield ==
    /\ blk.pc = "yield"
    /\ blk' = [blk EXCEPT !.pc = "loop"]
    /\ UNCHANGED <<SIMILARITY, started, collection, index, wal, acked, ups, rel>>

\* the response (line 238) or the failure has reached the caller
BulkReturn ==
    /\ blk.pc \in {"done", "failed"}
    /\ blk' = Idle
    /\ UNCHANGED <<SIMILARITY, started, collection, index, wal, acked, ups, rel>>

(***************************************************************************)
(* GET /related/{content_id} (lines 80-134)                                *)
(***************************************************************************)
\* MatchValue(value=...): the client's model takes a bool, an int or a str
ValidMatchValue(value) == value.t \in {"bool", "int", "str"}

Filter(key, value) == [t |-> "filter", key |-> key, value |-> value]

RelatedResponse(content_id, score, title, start_time, channel) ==
    [content_id |-> content_id, score |-> score, title |-> title,
     start_time |-> start_time, channel |-> channel]

\* the response item with the channel as stored
ResponseItemRaw(p) ==
    RelatedResponse(str(p.id), p.score, Get(p.payload, "title"), Get(p.payload, "start_time"),
                    Get(p.payload, "channel"))

\* lines 118-131: the response item of one search result
ResponseItem(p) ==
    LET pid == str(p.id)
        payload == p.payload
        channel_val == Get(payload, "channel")
    IN  RelatedResponse(pid, p.score, Get(payload, "title"), Get(payload, "start_time"),
                        IF channel_val # None /\ ~IsStr(channel_val)
                        THEN str(channel_val) ELSE channel_val)

\* the loop without the test of line 116
RECURSIVE CollectKeepSelf(_, _, _, _, _)
CollectKeepSelf(search_res, i, out, content_id, k) ==
    IF i > Len(search_res) THEN out
    ELSE LET out1 == Append(out, ResponseItem(search_res[i]))
         IN  IF Len(out1) >= k THEN out1
             ELSE CollectKeepSelf(search_res, i + 1, out1, content_id, k)

\* the loop with the test of line 132 passed one element late
\* the loop with each hit put at the head of the list
RECURSIVE CollectPrepend(_, _, _, _, _)
CollectPrepend(search_res, i, out, content_id, k) ==
    IF i > Len(search_res) THEN out
    ELSE IF str(search_res[i].id) = content_id
         THEN CollectPrepend(search_res, i + 1, out, content_id, k)
         ELSE LET out1 == <<ResponseItem(search_res[i])>> \o out
              IN  IF Len(out1) >= k THEN out1
                  ELSE CollectPrepend(search_res, i + 1, out1, content_id, k)

RECURSIVE CollectLate(_, _, _, _, _)
CollectLate(search_res, i, out, content_id, k) ==
    IF i > Len(search_res) THEN out
    ELSE IF str(search_res[i].id) = content_id
         THEN CollectLate(search_res, i + 1, out, content_id, k)
         ELSE LET out1 == Append(out, ResponseItem(search_res[i]))
              IN  IF Len(out1) > k THEN out1
                  ELSE CollectLate(search_res, i + 1, out1, content_id, k)

\* lines 113-134: the loop over search_res from its i-th element on
RECURSIVE Collect(_, _, _, _, _)
Collect(search_res, i, out, content_id, k) ==
    IF i > Len(search_res) THEN out
    ELSE IF str(search_res[i].id) = content_id
         THEN Collect(search_res, i + 1, out, content_id, k)
         ELSE LET out1 == Append(out, ResponseItem(search_res[i]))
              IN  IF Len(out1) >= k THEN out1
                  ELSE Collect(search_res, i + 1, out1, content_id, k)

\* line 91 without the test of the vector
NotFoundEmptyOnly(pts) == pts = <<>>

\* line 91: not points or points[0].vector is None
NotFound(pts) == pts = <<>> \/ pts[1].vector = None

\* line 98 with the flag read the wrong way round
WantsFilterInverted(same_channel, payload) ==
    /\ same_channel = PyBool(FALSE)
    /\ DOMAIN payload # {}
    /\ "channel" \in DOMAIN payload

\* line 98: the condition under which a filter is built
WantsFilter(same_channel, payload) ==
    /\ same_channel = PyBool(TRUE)
    /\ DOMAIN payload # {}
    /\ "channel" \in DOMAIN payload

\* a GET /related request has been accepted and its handler waits for the
\* event loop; at is where bulk_ingest stood then
RelatedArrive ==
    /\ started /\ rel.pc = "idle"
    /\ rel' = [pc |-> "pending",
               at |-> IF blk.pc = "idle" THEN [pc |-> "idle"] ELSE [pc |-> blk.pc, index |-> blk.index]]
    /\ UNCHANGED <<SIMILARITY, started, collection, index, wal, acked, ups, blk>>

\* lines 82-101: the anchor is retrieved and the filter built; building a
\* MatchValue from a value the client's model does not take raises
RelatedRetrieve ==
    /\ started /\ rel.pc \in {"idle", "pending"}
    /\ \E content_id \in Ids, same_channel \in SameChannel :
          LET pts == retrieve(index, content_id)
              req == [content_id |-> content_id, same_channel |-> same_channel]
          IN  IF NotFound(pts)
              THEN rel' = [pc |-> "done", req |-> req, points |-> pts, calls |-> <<"retrieve">>,
                           resp |-> [status |-> 404]]
              ELSE LET payload == pts[1].payload
                   IN  IF WantsFilter(same_channel, payload) /\ ~ValidMatchValue(payload["channel"])
                       THEN rel' = [pc |-> "done", req |-> req, points |-> pts,
                                    calls |-> <<"retrieve">>, resp |-> [status |-> 500]]
                       ELSE rel' = [pc |-> "search", req |-> req, points |-> pts,
                                    q_filter |-> IF WantsFilter(same_channel, payload)
                                                 THEN Filter("channel", payload["channel"])
                                                 ELSE None,
                                    calls |-> <<"retrieve">>]
    /\ UNCHANGED <<SIMILARITY, started, collection, index, wal, acked, ups, blk>>

\* a search that writes the channel of each hit back in its string form
RelatedSearchRepair ==
    /\ rel.pc = "search"
    /\ \E k \in Ks :
         LET anchor_vec == rel.points[1].vector
         IN  \E search_res \in search(collection, index, anchor_vec, Max(k + 1, 2), rel.q_filter) :
                /\ rel' = [pc |-> "done", req |-> rel.req, k |-> k, points |-> rel.points,
                           q_filter |-> rel.q_filter, search_res |-> search_res,
                           calls |-> Append(rel.calls, "search"),
                           resp |-> [status |-> 200,
                                     out |-> Collect(search_res, 1, <<>>, rel.req.content_id, k)]]
                /\ index' = [id \in Ids |->
                               IF \E j \in 1..Len(search_res) : search_res[j].id = id
                               THEN [index[id] EXCEPT !.payload =
                                        [key \in DOMAIN @ |->
                                            IF key = "channel" /\ @[key] # None /\ ~IsStr(@[key])
                                            THEN str(@[key]) ELSE @[key]]]
                               ELSE index[id]]
    /\ UNCHANGED <<SIMILARITY, started, collection, wal, acked, ups, blk>>

\* lines 104-134: the search and the loop over its results
RelatedSearch ==
    /\ rel.pc = "search"
    /\ \E k \in Ks :
         LET anchor_vec == rel.points[1].vector
         IN  \E search_res \in search(collection, index, anchor_vec, Max(k + 1, 2), rel.q_filter) :
                rel' = [pc |-> "done", req |-> rel.req, k |-> k, points |-> rel.points,
                        q_filter |-> rel.q_filter, search_res |-> search_res,
                        calls |-> Append(rel.calls, "search"),
                        resp |-> [status |-> 200,
                                  out |-> Collect(search_res, 1, <<>>, rel.req.content_id, k)]]
    /\ UNCHANGED <<SIMILARITY, started, collection, index, wal, acked, ups, blk>>

\* the response has reached the caller
RelatedReturn ==
    /\ rel.pc = "done"
    /\ rel' = Idle
    /\ UNCHANGED <<SIMILARITY, started, collection, index, wal, acked, ups, blk>>

\* a response is handed over before the service takes another step
Responding == blk.pc \in {"done", "failed"} \/ rel.pc = "done"

Next ==
    \/ BulkReturn
    \/ RelatedReturn
    \/ ~Responding /\ Startup
    \/ ~Responding /\ WalApply
    \/ ~Responding /\ UpsertCall
    \/ ~Responding /\ UpsertWrite
    \/ ~Responding /\ BulkCall(SmallBulks)
    \/ ~Responding /\ BulkLoop
    \/ ~Responding /\ BulkEncode
    \/ ~Responding /\ BulkUpsert
    \/ ~Responding /\ BulkYield
    \/ ~Responding /\ RelatedRetrieve
    \/ ~Responding /\ RelatedSearch

Spec == Init /\ [][Next]_vars

\* the ingestion handlers alone, with request bodies of several batches
NextBulk ==
    \/ BulkReturn
    \/ ~Responding /\ Startup
    \/ ~Responding /\ WalApply
    \/ ~Responding /\ UpsertCall
    \/ ~Responding /\ UpsertWrite
    \/ ~Responding /\ BulkCall(LargeBulks)
    \/ ~Responding /\ BulkLoop
    \/ ~Responding /\ BulkEncode
    \/ ~Responding /\ BulkUpsert
    \/ ~Responding /\ BulkYield

SpecBulk == Init /\ [][NextBulk]_vars

(***************************************************************************)
(* The handlers on the one event loop.  bulk_ingest is suspended where it   *)
(* awaits (lines 227, 231, 235) and runs on the loop between two awaits; a  *)
(* handler is dispatched only while no coroutine runs, and the loop resumes *)
(* its ready coroutines in the order they became ready.                    *)
(***************************************************************************)
\* a handler with no await in its loop
AwaitsNone == {}

\* the positions at which bulk_ingest is suspended: in to_thread(encode_batch),
\* in to_thread(client.upsert), in sleep(0)
Awaits == {"encoding", "upserting", "loop"}

Running == blk.pc \in {"loop", "encoding", "upserting", "yield"} \ Awaits

Position == IF blk.pc = "idle" THEN [pc |-> "idle"] ELSE [pc |-> blk.pc, index |-> blk.index]

\* bulk_ingest goes on when it is running, or when it is resumed: with a
\* handler pending, only by a wake-up that may have been queued before it
BulkMayStep ==
    IF Running \/ rel.pc # "pending" THEN TRUE
    ELSE rel.at = Position /\ rel.at.pc \in Awaits

MultiBulks == {BATCH_SIZE + 1, 2 * BATCH_SIZE + 1}

NextLoop ==
    \/ BulkReturn
    \/ RelatedReturn
    \/ ~Responding /\ Startup
    \/ ~Responding /\ rel.pc # "pending" /\ BulkCall(MultiBulks)
    \/ ~Responding /\ BulkMayStep /\ BulkLoop
    \/ ~Responding /\ BulkMayStep /\ BulkEncode
    \/ ~Responding /\ BulkMayStep /\ BulkUpsert
    \/ ~Responding /\ BulkYield
    \/ ~Responding /\ RelatedArrive
    \/ ~Responding /\ ~Running /\ rel.pc = "pending" /\ RelatedRetrieve
    \/ ~Responding /\ ~Running /\ RelatedSearch

SpecLoop ==
    /\ Init /\ [][NextLoop]_vars
    /\ WF_vars(BulkYield) /\ WF_vars(BulkReturn) /\ WF_vars(RelatedReturn)
    /\ WF_vars(~Responding /\ ~Running /\ rel.pc = "pending" /\ RelatedRetrieve)

\* the event loop resumes a coroutine that can go on, and a call handed to a
\* worker thread comes back (with a result or an exception)
BulkFairness ==
    /\ WF_vars(BulkLoop) /\ WF_vars(BulkEncode) /\ WF_vars(BulkUpsert)
    /\ WF_vars(BulkYield) /\ WF_vars(BulkReturn)

SpecBulkFair == SpecBulk /\ BulkFairness

(***************************************************************************)
(* Properties of GET /related.  A finished request is in rel with its      *)
(* response; the index has not changed since its last call to the index.   *)
(***************************************************************************)
RelDone == rel.pc = "done"
RelOk == RelDone /\ rel.resp.status = 200

\* the anchor is not in the index, or is there without a vector
Missing(pts) == pts = <<>> \/ pts[1].vector = None

\* the points other than the anchor that the search, as filtered, can return
Candidates == Searchable(index, rel.q_filter) \ {rel.req.content_id}

HasChannel(payload) == "channel" \in DOMAIN payload /\ payload["channel"] # None

\* a channel after string normalization
Normalized(v) == IF v # None /\ ~IsStr(v) THEN str(v) ELSE v

\* C1: no result that related returns has the anchor's id as its content_id,
\* whatever the index holds and whatever k and same_channel are.
C1_SelfExclusion ==
    RelOk => \A i \in 1..Len(rel.resp.out) : rel.resp.out[i].content_id # rel.req.content_id

\* the search returned the anchor itself, and related returned other points
C1_Witness ==
    /\ RelOk
    /\ \E j \in 1..Len(rel.search_res) : rel.search_res[j].id = rel.req.content_id
    /\ Len(rel.resp.out) >= 1

\* C2: the list related returns has at most k elements, for every k, zero and
\* negative k included.
C2_AtMostK == RelOk => Len(rel.resp.out) <= rel.k

\* C2, amended: the list has at most k elements when k >= 1 and at most one
\* element when k <= 0 (the loop tests the length after it has appended).
C2_AtMostMaxK1 == RelOk => Len(rel.resp.out) <= Max(rel.k, 1)

\* the loop stopped at the bound and left a candidate out
C2_Witness ==
    /\ RelOk
    /\ Len(rel.resp.out) = Max(rel.k, 1)
    /\ Cardinality(Candidates) > Len(rel.resp.out)

\* C3: for an anchor in the index and k >= 1, related returns exactly
\* min(k, c) results, c the number of points other than the anchor that
\* satisfy the applied filter.
C3_ExactCount ==
    RelDone /\ ~Missing(rel.points)
        => /\ rel.resp.status = 200
           /\ rel.k >= 1 => Len(rel.resp.out) = Min(rel.k, Cardinality(Candidates))

\* C4: when the anchor is not in the index, or has no vector, related answers
\* 404 and has made no search; a request that searches has found its anchor.
C4_MissingAnchor ==
    /\ RelDone /\ rel.calls = <<"retrieve">>
          => rel.points = retrieve(index, rel.req.content_id)
    /\ RelDone /\ Missing(rel.points)
          => rel.resp.status = 404 /\ rel.calls = <<"retrieve">>
    /\ rel.pc = "search" \/ (RelDone /\ rel.calls # <<"retrieve">>)
          => ~Missing(rel.points)

\* the anchor is stored without a vector and the request got its 404
C4_Witness ==
    /\ RelDone
    /\ rel.points # <<>> /\ rel.points[1].vector = None
    /\ rel.resp.status = 404

\* C5: with same_channel = true and an anchor whose payload has a channel
\* value, every result's channel is the anchor's, both as strings.
C5_FilterCorrect ==
    RelOk /\ rel.req.same_channel = PyBool(TRUE) /\ HasChannel(rel.points[1].payload)
        => \A i \in 1..Len(rel.resp.out) :
              rel.resp.out[i].channel = Normalized(rel.points[1].payload["channel"])

\* a point of another channel could have been returned, and was not
C5_Witness ==
    /\ RelOk /\ rel.req.same_channel = PyBool(TRUE) /\ HasChannel(rel.points[1].payload)
    /\ Len(rel.resp.out) >= 1
    /\ \E id \in Searchable(index, None) \ {rel.req.content_id} :
          Normalized(Get(index[id].payload, "channel"))
              # Normalized(rel.points[1].payload["channel"])

\* C6: for an anchor stored without a channel, related with same_channel =
\* true builds no filter and answers as it does without same_channel.
C6_NoFilterWithoutChannel ==
    /\ RelDone /\ ~Missing(rel.points)
    /\ rel.req.same_channel = PyBool(TRUE)
    /\ Get(rel.points[1].payload, "channel") = None
    => rel.resp.status = 200 /\ rel.q_filter = None

(***************************************************************************)
(* Properties of the ingestion handlers.                                   *)
(***************************************************************************)
WritesDone == ups.pc = "idle" /\ blk.pc = "idle"

UpsertCalls(log) == SelectSeq(log, LAMBDA e : e.op = "upsert_start")

Ceil(n, d) == (n + d - 1) \div d

\* C8: a bulk_ingest over N items that meets no failure makes ceil(N/500)
\* upsert calls, each of 500 points, but the last of N mod 500 when that is
\* not zero.
C8_BatchCount ==
    blk.pc = "done" =>
        LET u == UpsertCalls(blk.log)
        IN  /\ Len(u) = Ceil(blk.total, BATCH_SIZE)
            /\ \A j \in 1..Len(u) :
                  u[j].n = IF j < Len(u) \/ blk.total % BATCH_SIZE = 0
                           THEN BATCH_SIZE ELSE blk.total % BATCH_SIZE

\* three batches, the last of one item
C8_Witness == blk.pc = "done" /\ blk.total = 2 * BATCH_SIZE + 1 /\ Len(UpsertCalls(blk.log)) = 3

Phase == <<"encode_start", "encode_end", "upsert_start", "upsert_end">>

\* C9: within a bulk_ingest call the batches go in input order, each batch's
\* encoding ends before its upsert starts, and its upsert ends before the
\* next batch's encoding starts, whatever other requests do meanwhile.
C9_BatchOrder ==
    blk.pc # "idle" =>
        \A j \in 1..Len(blk.log) :
            /\ blk.log[j].op = Phase[((j - 1) % 4) + 1]
            /\ blk.log[j].index = BATCH_SIZE * ((j - 1) \div 4)

\* the second batch is written while an /upsert request is in flight
C9_Witness == blk.pc # "idle" /\ Len(blk.log) >= 8 /\ ups.pc = "write"

\* the ids of the first n items
GuidsBefore(total, n) == {Items(total)[j].guid : j \in 1..n}

\* C10: when the encoding or the upsert of a batch fails, bulk_ingest makes no
\* call for a later batch, hands the failure to its caller instead of a count,
\* and the points of the batches before stay in the index.
C10_FailureAborts ==
    /\ blk.pc = "failed" =>
          /\ blk.resp.status = 500 /\ "count" \notin DOMAIN blk.resp
          /\ blk.log # <<>>
          /\ blk.log[Len(blk.log)].op \in {"encode_start", "upsert_start"}
          /\ \A j \in 1..Len(blk.log) : blk.log[j].index <= blk.index
          /\ \A id \in GuidsBefore(blk.total, blk.index) : index[id] # Absent
          /\ blk.index >= 2 => index[IdB] = EncodeItem(BulkFeedItem(2))
    /\ blk.pc = "done" =>
          /\ blk.resp = [status |-> 200, count |-> blk.total]
          /\ Len(blk.log) = 4 * Ceil(blk.total, BATCH_SIZE)

\* the second batch failed after the first was written
C10_Witness ==
    /\ blk.pc = "failed" /\ blk.index = BATCH_SIZE
    /\ index[IdB] = EncodeItem(BulkFeedItem(2))

UpsertEnds(log) == SelectSeq(log, LAMBDA e : e.op = "upsert_end")

RECURSIVE SumN(_, _)
SumN(log, i) == IF i > Len(log) THEN 0 ELSE log[i].n + SumN(log, i + 1)

BulkFinished == blk.pc \in {"done", "failed"}

\* C11: a bulk_ingest call over N items ends; when none of its backend calls
\* fails it returns count = N, and when it returns every one of the N items
\* has been written to the index by an upsert that has completed.
C11_BulkAcknowledged ==
    /\ [](blk.pc = "done" =>
            /\ blk.resp = [status |-> 200, count |-> blk.total]
            /\ blk.index = blk.total
            /\ SumN(UpsertEnds(blk.log), 1) = blk.total
            /\ \A id \in GuidsBefore(blk.total, blk.total) : index[id] # Absent
            /\ blk.total >= 2 => index[IdB] = EncodeItem(BulkFeedItem(2)))
    /\ [](blk.pc = "failed" => blk.log[Len(blk.log)].op \in {"encode_start", "upsert_start"})
    /\ (blk.pc = "loop" /\ blk.index = 0) ~> BulkFinished

\* a request of two batches has returned its count
C11_Witness ==
    /\ blk.pc = "done" /\ blk.total = BATCH_SIZE + 1 /\ blk.resp.count = BATCH_SIZE + 1
    /\ Len(UpsertEnds(blk.log)) = 2

\* C12: bulk_ingest yields to the event loop after each batch, so a related
\* request that is pending while an ingest of several batches runs is
\* dispatched before the ingest goes beyond the batch that was in progress
\* when the request arrived; it does not wait for the ingest to finish.
C12_Backpressure ==
    /\ [](rel.pc = "pending" /\ rel.at.pc # "idle" /\ blk.pc # "idle" =>
            /\ blk.index <= rel.at.index + BATCH_SIZE
            /\ blk.pc \in {"encoding", "upserting"} => blk.index = rel.at.index)
    /\ [][blk.pc = "upserting" /\ blk' # blk /\ blk'.pc # "failed" => blk'.pc = "yield"]_vars
    /\ [][blk.pc = "yield" /\ blk' # blk => blk'.pc = "loop" /\ blk'.log = blk.log]_vars
    /\ (rel.pc = "pending") ~> (rel.pc # "pending")

\* a request that arrived during the first batch of three is answered while
\* the ingest is still in that batch
C12_Witness ==
    /\ rel.pc = "done" /\ rel.resp.status = 200
    /\ blk.pc = "upserting" /\ blk.index = 0 /\ blk.total = 2 * BATCH_SIZE + 1

\* the channel stored with the point of a returned item
StoredChannel(item) == Get(index[item.content_id].payload, "channel")

\* C13: every result of related has a channel that is absent or a string; a
\* candidate stored with an integer channel comes back with the decimal
\* string of that integer.
C13_ChannelNormalized ==
    RelOk =>
        \A i \in 1..Len(rel.resp.out) :
            LET item == rel.resp.out[i]
            IN  /\ item.channel = None \/ IsStr(item.channel)
                /\ StoredChannel(item) = PyInt(1) => item.channel = PyStr(<<"1">>)
                /\ StoredChannel(item) = PyInt(2) => item.channel = PyStr(<<"2">>)
                /\ IsStr(StoredChannel(item)) => item.channel = StoredChannel(item)

\* a point stored with the integer channel 1 is among the results
C13_Witness ==
    /\ RelOk
    /\ \E i \in 1..Len(rel.resp.out) :
          /\ StoredChannel(rel.resp.out[i]) = PyInt(1)
          /\ rel.resp.out[i].channel = PyStr(<<"1">>)

\* C14: in every reachable index state a stored payload has a key (title,
\* description, channel, start_time) only with a value the item supplied; a
\* field the item lacks is left out and never stored as a null.
C14_PayloadHasNoNulls ==
    \A id \in Ids :
        index[id] # Absent =>
            \A key \in DOMAIN index[id].payload : index[id].payload[key] # None

\* C15: a related call, whether it succeeds or finds no anchor, leaves the
\* points of the index, their vectors and their payloads as they were; only
\* upsert and bulk_ingest write to the index.
C15_RelatedReadOnly ==
    /\ [][rel' # rel => UNCHANGED <<index, wal, collection>>]_vars
    /\ [][index' # index =>
              \/ wal # <<>> /\ wal' = Tail(wal) /\ index' = ApplyPoints(index, Head(wal))
              \/ blk.pc = "upserting" /\ blk'.pc = "yield"]_vars
    /\ [][wal' # wal /\ Len(wal') > Len(wal) => ups.pc = "write" /\ ups'.pc = "idle"]_vars

\* a related call has found no anchor in an index that holds points
C15_Witness ==
    /\ RelDone /\ rel.resp.status = 404 /\ rel.points = <<>>
    /\ \E id \in Ids : index[id] # Absent /\ index[id].vector # None

\* C16: when the collection exists with a dimension or a metric other than
\* the configured ones, startup fails and the service serves no request: a
\* started service has a collection of the model's dimension and of the
\* configured metric.
C16_StartupRejectsMismatch ==
    started =>
        /\ collection.size = get_sentence_embedding_dimension
        /\ collection.distance = (IF SIMILARITY = "cosine" THEN "Cosine" ELSE "Dot")

\* the search hits other than the anchor, in the order of the search
Others == SelectSeq(rel.search_res, LAMBDA p : p.id # rel.req.content_id)

Take(n, seq) == SubSeq(seq, 1, Min(Max(n, 0), Len(seq)))

SameHits(out, hits) ==
    /\ Len(out) = Len(hits)
    /\ \A i \in 1..Len(out) : out[i].content_id = hits[i].id /\ out[i].score = hits[i].score

Descending(out) == \A i \in 1..(Len(out) - 1) : ~ScoreLess(out[i].score, out[i + 1].score)

\* C17: the list related returns is the list of the search, in the same
\* order (descending similarity), but for the anchor's own id taken out and
\* the list cut after k results.
C17_NoReranking ==
    RelOk => SameHits(rel.resp.out, Take(rel.k, Others)) /\ Descending(rel.resp.out)

\* C17, amended: the same, the list being cut after max(k, 1) results (for
\* k <= 0 the first hit other than the anchor is returned).
C17_NoRerankingMaxK1 ==
    RelOk => SameHits(rel.resp.out, Take(Max(rel.k, 1), Others)) /\ Descending(rel.resp.out)

\* two hits of different scores are returned after the anchor was taken out
C17_Witness ==
    /\ RelOk /\ Len(rel.resp.out) = 2 /\ Len(rel.search_res) = 3
    /\ ScoreLess(rel.resp.out[2].score, rel.resp.out[1].score)

\* 1970-01-01T00:00:00+00:00 and 1970-01-01T00:01:00+00:00
EpochZero == PyStr(<<"1", "9", "7", "0", "-", "0", "1", "-", "0", "1", "T", "0", "0", ":", "0", "0", ":", "0", "0", "+", "0", "0", ":", "0", "0">>)
EpochSixty == PyStr(<<"1", "9", "7", "0", "-", "0", "1", "-", "0", "1", "T", "0", "0", ":", "0", "1", ":", "0", "0", "+", "0", "0", ":", "0", "0">>)

\* the point of id was written by bulk_ingest from the feed item of that id
BulkWritten(id) ==
    /\ index[id] # Absent /\ index[id].vector # None
    /\ \E i \in 1..3 : BulkFeedItem(i).guid = id
                        /\ Get(index[id].payload, "title") = BulkFeedItem(i).title
                        /\ "description" \in DOMAIN index[id].payload
                        /\ index[id].payload["description"] = BulkFeedItem(i).description

\* C18: bulk_ingest stores, for an item with an integer startTime (0
\* included), the ISO-8601 UTC string of that instant, and for an item
\* without startTime no start_time (never the string of the epoch).
C18_TimestampNormalized ==
    /\ BulkWritten(IdB) => Get(index[IdB].payload, "start_time") = EpochZero
    /\ BulkWritten(IdC) => Get(index[IdC].payload, "start_time") = EpochSixty
    /\ BulkWritten(IdA) => Get(index[IdA].payload, "start_time") = None

\* title, then one newline and the description when there is one
Lines(title, description) ==
    LET t == IF title = None THEN <<>> ELSE title.v
    IN  IF description = None \/ description.v = <<>> THEN PyStr(t)
        ELSE PyStr(t \o <<"\n">> \o description.v)

Drama == PyList(<<PyStr(<<"D">>)>>)

\* C19: build_signature returns the title (the empty string when absent)
\* alone when the description is absent or empty, and otherwise the title and
\* the description joined by exactly one newline with nothing else between
\* them and nothing after; genres and cast do not change the result.
C19_SignatureShape ==
    /\ ups.pc = "write" =>
          LET it == ups.item
          IN  /\ build_signature(it.title, it.description, it.genres, it.cast)
                    = Lines(it.title, it.description)
              /\ ups.vec = PyList(encode(Lines(it.title, it.description)))
    /\ \A title \in {None, Empty, News}, description \in {None, Empty, Update} :
          \A genres \in {None, Drama}, cast \in {None, Drama} :
              build_signature(title, description, genres, cast)
                  = build_signature(title, description, None, None)

\* C20: within one bulk_ingest call the points of the successive upsert
\* calls, put end to end in call order, are the input items one for one and
\* in order: no item is skipped, none is written twice, and the id of each
\* point is the guid of its item.
C20_BatchesPartitionInput ==
    blk.pc # "idle" =>
        LET u == UpsertCalls(blk.log)
        IN  /\ \A j \in 1..Len(u) : u[j].index = SumN(SubSeq(u, 1, j - 1), 1)
            /\ blk.pc = "done" => SumN(u, 1) = blk.total
            /\ blk.pc = "upserting" =>
                  LET pts == points
                      n == u[Len(u)].n
                  IN  /\ Len(pts) = n
                      /\ blk.index + n <= blk.total
                      /\ [j \in 1..Len(pts) |-> pts[j].id]
                            = [j \in 1..n |-> BulkFeedItem(blk.index + j).guid]

\* the second batch of 500 of a request of 1000 items is being written
C20_Witness ==
    blk.pc = "upserting" /\ blk.index = BATCH_SIZE /\ blk.total = 2 * BATCH_SIZE

====
